---- MODULE Spec2Model ----
(***************************************************************************)
(* Call-trace tree of evm-adapters/src/call_tracing.rs.                    *)
(*                                                                         *)
(* A CallTrace is a record whose field `inner` is the sequence of its      *)
(* child CallTraces.  Rust indexes `inner` from 0 and TLA+ sequences from  *)
(* 1, so `self.inner[i]` of the source is `self.inner[i + 1]` here.        *)
(* The mutating methods take `&mut self`; they are modelled as operators   *)
(* returning [err, trace]: `trace` is the value of `self` when the call    *)
(* returns or panics, `err` the panic message (NoErr when it returns).     *)
(***************************************************************************)
EXTENDS Integers, Sequences, FiniteSets, TLC

\* ------------------------------------------------------------------ bounds
\* Largest number of nodes (root included) a modelled tree may hold.
MaxNodes == 4

\* ------------------------------------------------------------- data model
NoErr == "none"
DisconnectedAdd == "Disconnected trace"
DisconnectedUpdate == "Disconnected trace update"
DisconnectedLocation == "Disconnected trace location"
IndexOutOfBounds == "index out of bounds"

\* RawLog { topics, data }
RawLog(t) == [topics |-> <<t>>, data |-> <<>>]

\* #[derive(Default)]: the root as the tracer constructs it.
DefaultTrace ==
    [depth |-> 0, location |-> 0, success |-> FALSE, addr |-> 0,
     created |-> FALSE, data |-> <<>>, cost |-> 0, output |-> <<>>,
     logs |-> <<>>, inner |-> <<>>]

\* The two payloads the tracer's fragments are drawn from.  They differ from
\* each other and from the default in every field an update overwrites.
\* A call opens with the first (OpenFragment) and closes with either.
Kinds == {1, 2}
\* The depths and locations fragments carry.  A tree of MaxNodes nodes is at
\* most MaxNodes - 1 deep, so the depths reach past every leaf.
Depths == 0..MaxNodes
Locations == {0, 1}
\* The location carried by fragments added outside the protocol: a caller
\* that never asks location() leaves the field at its default.
AddLocations == {0}

\* A fragment: the temporary CallTrace the tracer hands to add_trace,
\* update_trace and location.  It tracks no inner calls (source line 54).
Fragment(d, l, k) ==
    [depth |-> d, location |-> l, success |-> (k = 1), addr |-> k,
     created |-> (k = 1),
     data |-> IF k = 1 THEN <<1, 2, 3, 4, 5>> ELSE <<9>>,
     cost |-> k, output |-> <<k>>,
     logs |-> IF k = 1 THEN <<RawLog(1)>> ELSE <<RawLog(2), RawLog(1)>>,
     inner |-> <<>>]

\* The fragment of a call that begins.
OpenFragment(d, l) == Fragment(d, l, 1)

Ok(t) == [err |-> NoErr, trace |-> t]
Panic(msg, t) == [err |-> msg, trace |-> t]

Last(s) == s[Len(s)]
Front(s) == SubSeq(s, 1, Len(s) - 1)

\* ------------------------------------------------------------- operations
\* Mutant: the descent takes the first child, not the last.
RECURSIVE add_trace_first_child(_, _)
add_trace_first_child(self, new_trace) ==
    IF new_trace.depth = 0
    THEN Ok(self)
    ELSE IF self.depth = new_trace.depth - 1
    THEN Ok([self EXCEPT !.inner = Append(@, new_trace)])
    ELSE IF self.inner = <<>>
    THEN Panic(DisconnectedAdd, self)
    ELSE LET r == add_trace_first_child(Head(self.inner), new_trace)
         IN  [err |-> r.err, trace |-> [self EXCEPT !.inner[1] = r.trace]]

\* Mutant: a node without children takes the fragment instead of failing.
RECURSIVE add_trace_lenient(_, _)
add_trace_lenient(self, new_trace) ==
    IF new_trace.depth = 0
    THEN Ok(self)
    ELSE IF self.depth = new_trace.depth - 1 \/ self.inner = <<>>
    THEN Ok([self EXCEPT !.inner = Append(@, new_trace)])
    ELSE LET r == add_trace_lenient(Last(self.inner), new_trace)
         IN  [err |-> r.err,
              trace |-> [self EXCEPT !.inner[Len(self.inner)] = r.trace]]

\* Mutant: the parent is taken to be the node of the fragment's own depth.
RECURSIVE add_trace_same_depth(_, _)
add_trace_same_depth(self, new_trace) ==
    IF new_trace.depth = 0
    THEN Ok(self)
    ELSE IF self.depth = new_trace.depth
    THEN Ok([self EXCEPT !.inner = Append(@, new_trace)])
    ELSE IF self.inner = <<>>
    THEN Panic(DisconnectedAdd, self)
    ELSE LET r == add_trace_same_depth(Last(self.inner), new_trace)
         IN  [err |-> r.err,
              trace |-> [self EXCEPT !.inner[Len(self.inner)] = r.trace]]

\* Mutant: the fragment is put in front of its siblings.
RECURSIVE add_trace_front(_, _)
add_trace_front(self, new_trace) ==
    IF new_trace.depth = 0
    THEN Ok(self)
    ELSE IF self.depth = new_trace.depth - 1
    THEN Ok([self EXCEPT !.inner = <<new_trace>> \o @])
    ELSE IF self.inner = <<>>
    THEN Panic(DisconnectedAdd, self)
    ELSE LET r == add_trace_front(Last(self.inner), new_trace)
         IN  [err |-> r.err,
              trace |-> [self EXCEPT !.inner[Len(self.inner)] = r.trace]]

\* Mutant: a depth-0 fragment overwrites the root (the call that the source
\* has commented out at line 38).
RECURSIVE add_trace_overwrite(_, _)
add_trace_overwrite(self, new_trace) ==
    IF new_trace.depth = 0
    THEN Ok([self EXCEPT !.success = new_trace.success,
                         !.addr = new_trace.addr,
                         !.cost = new_trace.cost,
                         !.output = new_trace.output,
                         !.logs = new_trace.logs,
                         !.data = new_trace.data])
    ELSE IF self.depth = new_trace.depth - 1
    THEN Ok([self EXCEPT !.inner = Append(@, new_trace)])
    ELSE IF self.inner = <<>>
    THEN Panic(DisconnectedAdd, self)
    ELSE LET r == add_trace_overwrite(Last(self.inner), new_trace)
         IN  [err |-> r.err,
              trace |-> [self EXCEPT !.inner[Len(self.inner)] = r.trace]]

RECURSIVE add_trace(_, _)
add_trace(self, new_trace) ==
    IF new_trace.depth = 0
    THEN Ok(self)
    ELSE IF self.depth = new_trace.depth - 1
    THEN Ok([self EXCEPT !.inner = Append(@, new_trace)])
    ELSE IF self.inner = <<>>
    THEN Panic(DisconnectedAdd, self)
    ELSE LET r == add_trace(Last(self.inner), new_trace)
         IN  [err |-> r.err,
              trace |-> [self EXCEPT !.inner[Len(self.inner)] = r.trace]]

\* Mutant: the overwrite takes the fragment's created flag as well.
update_created(self, new_trace) ==
    [self EXCEPT !.success = new_trace.success,
                 !.addr = new_trace.addr,
                 !.cost = new_trace.cost,
                 !.output = new_trace.output,
                 !.logs = new_trace.logs,
                 !.data = new_trace.data,
                 !.created = new_trace.created]

\* Mutant: the logs of the fragment are appended to the node's logs.
update_extend_logs(self, new_trace) ==
    [self EXCEPT !.success = new_trace.success,
                 !.addr = new_trace.addr,
                 !.cost = new_trace.cost,
                 !.output = new_trace.output,
                 !.logs = @ \o new_trace.logs,
                 !.data = new_trace.data]

update(self, new_trace) ==
    [self EXCEPT !.success = new_trace.success,
                 !.addr = new_trace.addr,
                 !.cost = new_trace.cost,
                 !.output = new_trace.output,
                 !.logs = new_trace.logs,
                 !.data = new_trace.data]

\* Mutant: the descent takes the first child, not the last.
RECURSIVE update_trace_first_child(_, _)
update_trace_first_child(self, new_trace) ==
    IF new_trace.depth = 0
    THEN Ok(update(self, new_trace))
    ELSE IF self.depth = new_trace.depth - 1
    THEN IF new_trace.location >= Len(self.inner)
         THEN Panic(IndexOutOfBounds, self)
         ELSE Ok([self EXCEPT !.inner[new_trace.location + 1] =
                                   update(@, new_trace)])
    ELSE IF self.inner = <<>>
    THEN Panic(DisconnectedUpdate, self)
    ELSE LET r == update_trace_first_child(Head(self.inner), new_trace)
         IN  [err |-> r.err, trace |-> [self EXCEPT !.inner[1] = r.trace]]

\* Mutant: the descent writes the fragment's cost into every node it passes.
RECURSIVE update_trace_marks_path(_, _)
update_trace_marks_path(self, new_trace) ==
    IF new_trace.depth = 0
    THEN Ok(update(self, new_trace))
    ELSE IF self.depth = new_trace.depth - 1
    THEN IF new_trace.location >= Len(self.inner)
         THEN Panic(IndexOutOfBounds, self)
         ELSE Ok([self EXCEPT !.inner[new_trace.location + 1] =
                                   update(@, new_trace)])
    ELSE IF self.inner = <<>>
    THEN Panic(DisconnectedUpdate, [self EXCEPT !.cost = new_trace.cost])
    ELSE LET r == update_trace_marks_path(Last(self.inner), new_trace)
         IN  [err |-> r.err,
              trace |-> [self EXCEPT !.cost = new_trace.cost,
                                     !.inner[Len(self.inner)] = r.trace]]

RECURSIVE update_trace(_, _)
update_trace(self, new_trace) ==
    IF new_trace.depth = 0
    THEN Ok(update(self, new_trace))
    ELSE IF self.depth = new_trace.depth - 1
    THEN IF new_trace.location >= Len(self.inner)
         THEN Panic(IndexOutOfBounds, self)
         ELSE Ok([self EXCEPT !.inner[new_trace.location + 1] =
                                   update(@, new_trace)])
    ELSE IF self.inner = <<>>
    THEN Panic(DisconnectedUpdate, self)
    ELSE LET r == update_trace(Last(self.inner), new_trace)
         IN  [err |-> r.err,
              trace |-> [self EXCEPT !.inner[Len(self.inner)] = r.trace]]

\* Mutant: the descent takes the first child, not the last.
RECURSIVE location_first_child(_, _)
location_first_child(self, new_trace) ==
    IF new_trace.depth = 0
    THEN [err |-> NoErr, ret |-> 0]
    ELSE IF self.depth = new_trace.depth - 1
    THEN [err |-> NoErr, ret |-> Len(self.inner)]
    ELSE IF self.inner = <<>>
    THEN [err |-> DisconnectedLocation, ret |-> 0]
    ELSE location_first_child(Head(self.inner), new_trace)

\* location(&self, ..) -> usize; ret is meaningful when err = NoErr.
RECURSIVE location(_, _)
location(self, new_trace) ==
    IF new_trace.depth = 0
    THEN [err |-> NoErr, ret |-> 0]
    ELSE IF self.depth = new_trace.depth - 1
    THEN [err |-> NoErr, ret |-> Len(self.inner)]
    ELSE IF self.inner = <<>>
    THEN [err |-> DisconnectedLocation, ret |-> 0]
    ELSE location(Last(self.inner), new_trace)

\* get_trace returns Option<&CallTrace>.  The reference is modelled by the
\* path (0-based child indices) from `self` to the node it points to.
NotFound == [found |-> FALSE, path |-> <<>>]

RECURSIVE get_trace(_, _, _)
RECURSIVE get_trace_inner(_, _, _, _)
get_trace(self, depth, loc) ==
    IF self.depth = depth /\ self.location = loc
    THEN [found |-> TRUE, path |-> <<>>]
    ELSE IF self.depth # depth
    THEN get_trace_inner(self, depth, loc, 1)
    ELSE NotFound

\* Mutant: the loop keeps the last match among the children, not the first.
get_trace_inner_last(self, depth, loc, i) ==
    IF i > Len(self.inner)
    THEN NotFound
    ELSE LET rest == get_trace_inner(self, depth, loc, i + 1)
             r == get_trace(self.inner[i], depth, loc)
         IN  IF rest.found
             THEN rest
             ELSE IF r.found
             THEN [found |-> TRUE, path |-> <<i - 1>> \o r.path]
             ELSE NotFound

\* The `for inner in self.inner.iter()` loop of get_trace, from child i on.
get_trace_inner(self, depth, loc, i) ==
    IF i > Len(self.inner)
    THEN NotFound
    ELSE LET r == get_trace(self.inner[i], depth, loc)
         IN  IF r.found
             THEN [found |-> TRUE, path |-> <<i - 1>> \o r.path]
             ELSE get_trace_inner(self, depth, loc, i + 1)

\* Mutant: the node's own logs are left out ("only count child logs").
RECURSIVE inner_number_of_logs_children_only(_)
RECURSIVE inner_number_of_logs_loop_children_only(_, _)
inner_number_of_logs_children_only(self) ==
    inner_number_of_logs_loop_children_only(self, 1)

inner_number_of_logs_loop_children_only(self, i) ==
    IF i > Len(self.inner)
    THEN 0
    ELSE inner_number_of_logs_children_only(self.inner[i]) + Len(self.inner[i].logs)
         + inner_number_of_logs_loop_children_only(self, i + 1)

RECURSIVE inner_number_of_logs(_)
RECURSIVE inner_number_of_logs_loop(_, _)
inner_number_of_logs(self) ==
    (IF Len(self.inner) > 0 THEN inner_number_of_logs_loop(self, 1) ELSE 0)
    + Len(self.logs)

\* The `for_each` of inner_number_of_logs, from child i on.
inner_number_of_logs_loop(self, i) ==
    IF i > Len(self.inner)
    THEN 0
    ELSE inner_number_of_logs(self.inner[i])
         + inner_number_of_logs_loop(self, i + 1)

\* Mutant: only the children are counted, not their descendants.
inner_number_of_inners_shallow(self) == Len(self.inner)

RECURSIVE inner_number_of_inners(_)
RECURSIVE inner_number_of_inners_loop(_, _)
inner_number_of_inners(self) ==
    (IF Len(self.inner) > 0 THEN inner_number_of_inners_loop(self, 1) ELSE 0)
    + Len(self.inner)

\* The `for_each` of inner_number_of_inners, from child i on.
inner_number_of_inners_loop(self, i) ==
    IF i > Len(self.inner)
    THEN 0
    ELSE inner_number_of_inners(self.inner[i])
         + inner_number_of_inners_loop(self, i + 1)

\* ---------------------------------------------------------------- render
\* The three prefix segments of pretty_print, each three characters wide,
\* written in ASCII: MidBranch is the source's mid-branch connector (a tee),
\* Terminal its last-item connector (a corner), Bar its continuation bar.
MidBranch == "+- "
Terminal == "L- "
Bar == "|  "

SliceOutOfRange == "range end index 4 out of range"
DecodeInputFailed == "decode_input(..).unwrap() on an Err"
ParseLogFailed == "parse_log(..).unwrap() on an Err"

\* `left` is a sequence of segments.  left.replace(mid-branch, bar): a
\* connector begins only where a segment begins, so the replacement of
\* every occurrence in the string is the replacement of every segment.
replace_mid_branch(left) ==
    [i \in 1..Len(left) |-> IF left[i] = MidBranch THEN Bar ELSE left[i]]

\* What a render has written (println! by println!) and how it ended.
Out(lines) == [err |-> NoErr, lines |-> lines]
PanicOut(msg) == [err |-> msg, lines |-> <<>>]
\* Statement a, then statement b unless a panicked.
Then(a, b) ==
    IF a.err # NoErr THEN a ELSE [err |-> b.err, lines |-> a.lines \o b.lines]

\* One printed line: its prefix, what it shows and of which node (path from
\* the rendered root) and log (0-based index, -1 for a call line).
Line(kind, left, path, log, color, name, item) ==
    [kind |-> kind, left |-> left, path |-> path, log |-> log,
     color |-> color, name |-> name, item |-> item]

\* contracts.iter().find(|..| addr == &self.addr): index of the first entry
\* (in key order) with the node's address, 0 when there is none.
RECURSIVE find_contract(_, _, _)
find_contract(contracts, addr, i) ==
    IF i > Len(contracts)
    THEN 0
    ELSE IF contracts[i].addr = addr
    THEN i
    ELSE find_contract(contracts, addr, i + 1)

\* `for func in overloaded_funcs.iter()`, from overload oi on.
RECURSIVE print_overloads(_, _, _, _, _, _)
print_overloads(self, name, fn, left, path, oi) ==
    IF oi > Len(fn.overloads)
    THEN Out(<<>>)
    ELSE IF Len(self.data) < 4
    THEN PanicOut(SliceOutOfRange)
    ELSE IF fn.overloads[oi].selector = SubSeq(self.data, 1, 4)
    THEN IF ~fn.overloads[oi].decodes
         THEN PanicOut(DecodeInputFailed)
         ELSE Then(Out(<<Line("call", left, path, -1,
                             IF self.success THEN "green" ELSE "red",
                             name, fn.name)>>),
                   print_overloads(self, name, fn, left, path, oi + 1))
    ELSE print_overloads(self, name, fn, left, path, oi + 1)

\* `for (func_name, overloaded_funcs) in abi.functions.iter()`, from fi on.
RECURSIVE print_functions(_, _, _, _, _, _)
print_functions(self, name, abi, left, path, fi) ==
    IF fi > Len(abi.functions)
    THEN Out(<<>>)
    ELSE Then(print_overloads(self, name, abi.functions[fi], left, path, 1),
              print_functions(self, name, abi, left, path, fi + 1))

\* Mutant: the last child gets the terminal connector whether or not logs
\* follow.
inner_left_ignores_logs(self, left, i) ==
    IF i = Len(self.inner) - 1
    THEN replace_mid_branch(left) \o <<Terminal>>
    ELSE replace_mid_branch(left) \o <<MidBranch>>

\* The prefix handed to child i (0-based) of self.
inner_left(self, left, i) ==
    IF i = Len(self.inner) - 1 /\ Len(self.logs) = 0
    THEN replace_mid_branch(left) \o <<Terminal>>
    ELSE replace_mid_branch(left) \o <<MidBranch>>

\* `for event in overloaded_events.iter()`, from overload oi on; `found` is
\* the flag of the enclosing loop body.
RECURSIVE print_event_overloads(_, _, _, _, _, _, _, _)
print_event_overloads(self, ev, left, path, i, right, oi, found) ==
    IF oi > Len(ev.overloads)
    THEN [err |-> NoErr, lines |-> <<>>, found |-> found]
    ELSE IF Len(self.logs[i + 1].topics) = 0
    THEN [err |-> IndexOutOfBounds, lines |-> <<>>, found |-> found]
    ELSE IF ev.overloads[oi].signature = self.logs[i + 1].topics[1]
    THEN IF ~ev.overloads[oi].decodes
         THEN [err |-> ParseLogFailed, lines |-> <<>>, found |-> TRUE]
         ELSE LET rest == print_event_overloads(self, ev, left, path, i,
                                                right, oi + 1, TRUE)
              IN  [err |-> rest.err,
                   lines |-> <<Line("emit",
                                    replace_mid_branch(left) \o <<right>>,
                                    path, i, "cyan", ev.name, "")>>
                             \o rest.lines,
                   found |-> rest.found]
    ELSE print_event_overloads(self, ev, left, path, i, right, oi + 1, found)

\* `for (event_name, overloaded_events) in abi.events.iter()` for log i,
\* from event name ei on.
RECURSIVE print_events(_, _, _, _, _, _)
print_events(self, abi, left, path, i, ei) ==
    IF ei > Len(abi.events)
    THEN Out(<<>>)
    ELSE LET right == IF i = Len(self.logs) - 1 THEN Terminal ELSE MidBranch
             r == print_event_overloads(self, abi.events[ei], left, path, i,
                                        right, 1, FALSE)
         IN  IF r.err # NoErr
             THEN [err |-> r.err, lines |-> r.lines]
             ELSE Then(Out(r.lines \o
                           (IF ~r.found
                            THEN <<Line("emit_raw",
                                        replace_mid_branch(left) \o <<right>>,
                                        path, i, "blue", "", "")>>
                            ELSE <<>>)),
                       print_events(self, abi, left, path, i, ei + 1))

\* The logs loop of a node that matched a contract, from log i (0-based) on.
RECURSIVE print_logs_matched(_, _, _, _, _)
print_logs_matched(self, abi, left, path, i) ==
    IF i >= Len(self.logs)
    THEN Out(<<>>)
    ELSE Then(print_events(self, abi, left, path, i, 1),
              print_logs_matched(self, abi, left, path, i + 1))

\* The logs loop of a node that matched no contract, from log i on; `right`
\* is the variable declared before the loop.
RECURSIVE print_logs_unmatched(_, _, _, _, _)
print_logs_unmatched(self, left, path, i, right) ==
    IF i >= Len(self.logs)
    THEN Out(<<>>)
    ELSE LET r == IF i = Len(self.logs) - 1 THEN Terminal ELSE right
         IN  Then(Out(<<Line("emit_plain",
                             replace_mid_branch(left) \o <<r>>,
                             path, i, "cyan", "", "")>>),
                  print_logs_unmatched(self, left, path, i + 1, r))

\* pretty_print(&self, contracts, left); `path` names the node printed.
RECURSIVE pretty_print(_, _, _, _)
RECURSIVE print_inner(_, _, _, _, _)
pretty_print(self, contracts, left, path) ==
    LET c == find_contract(contracts, self.addr, 1)
    IN  IF c # 0
        THEN Then(print_functions(self, contracts[c].name, contracts[c].abi,
                                  left, path, 1),
             Then(print_inner(self, contracts, left, path, 0),
                  print_logs_matched(self, contracts[c].abi, left, path, 0)))
        ELSE Then(Out(<<Line("raw_call", left, path, -1, "none",
                             self.addr,
                             IF Len(self.data) >= 4 THEN "selector" ELSE "")>>),
             Then(print_inner(self, contracts, left, path, 0),
                  print_logs_unmatched(self, left, path, 0, MidBranch)))

\* `self.inner.iter().enumerate().for_each(..)`, from child i (0-based) on.
print_inner(self, contracts, left, path, i) ==
    IF i >= Len(self.inner)
    THEN Out(<<>>)
    ELSE Then(pretty_print(self.inner[i + 1], contracts,
                           inner_left(self, left, i), path \o <<i>>),
              print_inner(self, contracts, left, path, i + 1))

\* Contract registries: BTreeMap<String, (Abi, Address, Vec<String>)> as the
\* sequence of its entries in key order; an Abi's functions and events as
\* the sequences of theirs.  `decodes` says whether the ABI decoder accepts
\* the payload at hand.
Function(sel, d) == [selector |-> sel, decodes |-> d]
Event(sig, d) == [signature |-> sig, decodes |-> d]
Named(n, overloads) == [name |-> n, overloads |-> overloads]
Contract(n, a, fs, es) ==
    [name |-> n, addr |-> a, abi |-> [functions |-> fs, events |-> es]]

Registries ==
    { <<>>,
      <<Contract("Token", 1,
                 <<Named("transfer", <<Function(<<1, 2, 3, 4>>, TRUE)>>)>>,
                 <<Named("Transfer", <<Event(1, TRUE)>>)>>)>>,
      <<Contract("Token", 1, <<>>,
                 <<Named("Approval", <<Event(2, TRUE)>>),
                   Named("Transfer", <<Event(1, TRUE)>>)>>),
        Contract("Vault", 2, <<>>,
                 <<Named("Approval", <<Event(2, TRUE)>>)>>)>>,
      <<Contract("Vault", 2,
                 <<Named("deposit", <<Function(<<7, 7, 7, 7>>, TRUE)>>)>>,
                 <<>>)>>,
      <<Contract("Token", 1,
                 <<Named("approve", <<Function(<<7, 7, 7, 7>>, TRUE)>>)>>,
                 <<>>)>>,
      <<Contract("Token", 1,
                 <<Named("transfer", <<Function(<<1, 2, 3, 4>>, FALSE)>>)>>,
                 <<>>)>> }

\* ------------------------------------------------- tree vocabulary (paths)
\* The paths (sequences of 0-based child indices) of the nodes of tree t.
RECURSIVE Paths(_)
Paths(t) ==
    {<<>>} \cup UNION {{<<i - 1>> \o p : p \in Paths(t.inner[i])} :
                        i \in 1..Len(t.inner)}

RECURSIVE NodeAt(_, _)
NodeAt(t, p) ==
    IF p = <<>> THEN t ELSE NodeAt(t.inner[Head(p) + 1], Tail(p))

NodeCount(t) == Cardinality(Paths(t))

\* ------------------------------------------------------------------ state
VARIABLES
    trace,   \* the root CallTrace, owned by the tracer
    phase,   \* "running": the events so far form a well-formed stream whose
             \*   root is still open; "done": a well-formed stream whose root
             \*   has closed; "free": some call was made outside the protocol
    open,    \* running: path of the deepest call that is opened, not closed
    opened,  \* running/done: the paths of the calls opened so far
    closes,  \* running/done: the close events so far, [path, kind]
    adds,    \* number of add_trace calls so far that appended a node
    printed, \* what the most recent call wrote to standard output: for a
             \*   pretty_print the registry it was given, how it ended and
             \*   its lines; nothing for any other call
    last     \* the most recent call: its name, argument, the tree before
             \*   it and what it returned; for an event of the protocol
             \*   ("open", "close") also the path of the call it is about

vars == <<trace, phase, open, opened, closes, adds, printed, last>>

Call(op, event, frag, pre, err, ret, found, path) ==
    [op |-> op, event |-> event, frag |-> frag, pre |-> pre, err |-> err,
     ret |-> ret, found |-> found, path |-> path]

NoOutput == [contracts |-> <<>>, err |-> NoErr, lines |-> <<>>]

Init ==
    /\ trace = DefaultTrace
    /\ printed = NoOutput
    /\ phase = "running"
    /\ open = <<>>
    /\ opened = {}
    /\ closes = {}
    /\ adds = 0
    /\ last = Call("default", "none", DefaultTrace, DefaultTrace, NoErr, 0, FALSE, <<>>)

\* The protocol is left: the bookkeeping of the event stream is dropped.
LeaveProtocol ==
    /\ phase' = "free"
    /\ printed' = NoOutput
    /\ open' = <<>>
    /\ opened' = {}
    /\ closes' = {}

\* Number of calls opened so far directly under the call at path p.
OpenedUnder(p) ==
    Cardinality({o \in opened : Len(o) = Len(p) + 1 /\ Front(o) = p})

\* A call begins inside the deepest open call: the tracer asks location()
\* for the index, builds the fragment with it and hands it to add_trace.
Open ==
    /\ phase = "running"
    /\ NodeCount(trace) < MaxNodes
    /\ LET d == Len(open) + 1
           loc == location(trace, OpenFragment(d, 0))
           frag == OpenFragment(d, loc.ret)
           r == add_trace(trace, frag)
           path == open \o <<OpenedUnder(open)>>
       IN  IF loc.err # NoErr
           THEN /\ trace' = trace
                /\ adds' = adds
                /\ last' = Call("location", "open", OpenFragment(d, 0),
                                trace, loc.err, loc.ret, FALSE, path)
                /\ LeaveProtocol
           ELSE /\ trace' = r.trace
                /\ adds' = IF r.err = NoErr THEN adds + 1 ELSE adds
                /\ last' = Call("add_trace", "open", frag, trace, r.err,
                                loc.ret, FALSE, path)
                /\ IF r.err # NoErr
                   THEN LeaveProtocol
                   ELSE /\ phase' = "running"
                        /\ printed' = NoOutput
                        /\ open' = path
                        /\ opened' = opened \cup {path}
                        /\ closes' = closes

\* The deepest open call returns: the tracer hands update_trace a fragment
\* with the call's depth and the location it was given when it opened.
Close(k) ==
    /\ phase = "running"
    /\ LET frag == Fragment(Len(open), IF open = <<>> THEN 0 ELSE Last(open), k)
           r == update_trace(trace, frag)
       IN  /\ trace' = r.trace
           /\ adds' = adds
           /\ last' = Call("update_trace", "close", frag, trace, r.err, 0,
                           FALSE, open)
           /\ IF r.err # NoErr
              THEN LeaveProtocol
              ELSE /\ phase' = IF open = <<>> THEN "done" ELSE "running"
                   /\ printed' = NoOutput
                   /\ open' = IF open = <<>> THEN <<>> ELSE Front(open)
                   /\ opened' = opened
                   /\ closes' = closes \cup {[path |-> open, kind |-> k]}

\* add_trace with any fragment, in any state.
AddTrace(d, l) ==
    LET frag == OpenFragment(d, l)
        r == add_trace(trace, frag)
    IN  /\ NodeCount(r.trace) <= MaxNodes
        /\ trace' = r.trace
        /\ adds' = IF r.err = NoErr /\ d >= 1 THEN adds + 1 ELSE adds
        /\ last' = Call("add_trace", "none", frag, trace, r.err, 0, FALSE,
                        <<>>)
        /\ LeaveProtocol

\* update_trace with any fragment, in any state.
UpdateTrace(d, l, k) ==
    LET frag == Fragment(d, l, k)
        r == update_trace(trace, frag)
    IN  /\ trace' = r.trace
        /\ adds' = adds
        /\ last' = Call("update_trace", "none", frag, trace, r.err, 0,
                        FALSE, <<>>)
        /\ LeaveProtocol

\* location(&self, &fragment): a query, in any state.
Location(d) ==
    LET frag == OpenFragment(d, 0)
        r == location(trace, frag)
    IN  /\ last' = Call("location", "none", frag, trace, r.err, r.ret,
                        FALSE, <<>>)
        /\ printed' = NoOutput
        /\ UNCHANGED <<trace, phase, open, opened, closes, adds>>

\* get_trace(&self, depth, location): a query, in any state.
GetTrace(d, l) ==
    LET r == get_trace(trace, d, l)
    IN  /\ last' = Call("get_trace", "none",
                        [DefaultTrace EXCEPT !.depth = d, !.location = l],
                        trace, NoErr, 0, r.found, r.path)
        /\ printed' = NoOutput
        /\ UNCHANGED <<trace, phase, open, opened, closes, adds>>

\* inner_number_of_inners(&self) on the node at path p: a query.
InnerNumberOfInners(p) ==
    /\ last' = Call("inner_number_of_inners", "none", DefaultTrace, trace,
                    NoErr, inner_number_of_inners(NodeAt(trace, p)), FALSE, p)
    /\ printed' = NoOutput
    /\ UNCHANGED <<trace, phase, open, opened, closes, adds>>

\* inner_number_of_logs(&self) on the node at path p: a query.
InnerNumberOfLogs(p) ==
    /\ last' = Call("inner_number_of_logs", "none", DefaultTrace, trace,
                    NoErr, inner_number_of_logs(NodeAt(trace, p)), FALSE, p)
    /\ printed' = NoOutput
    /\ UNCHANGED <<trace, phase, open, opened, closes, adds>>

\* pretty_print(&self, &contracts, "") on the root: a query that prints.
PrettyPrint(contracts) ==
    LET r == pretty_print(trace, contracts, <<>>, <<>>)
    IN  /\ printed' = [contracts |-> contracts, err |-> r.err,
                       lines |-> r.lines]
        /\ last' = Call("pretty_print", "none", DefaultTrace, trace, r.err, 0,
                        FALSE, <<>>)
        /\ UNCHANGED <<trace, phase, open, opened, closes, adds>>

Next ==
    \/ Open
    \/ \E k \in Kinds : Close(k)
    \/ \E d \in Depths, l \in AddLocations : AddTrace(d, l)
    \/ \E d \in Depths, l \in Locations, k \in Kinds : UpdateTrace(d, l, k)
    \/ \E d \in Depths : Location(d)
    \/ \E d \in Depths, l \in Locations : GetTrace(d, l)
    \/ \E p \in Paths(trace) : InnerNumberOfInners(p)
    \/ \E p \in Paths(trace) : InnerNumberOfLogs(p)
    \/ \E contracts \in Registries : PrettyPrint(contracts)

Spec == Init /\ [][Next]_vars

\* --------------------------------------------------- property vocabulary
\* The fields of a node, its subtree left out.
Fields(n) == [n EXCEPT !.inner = <<>>]

Prefix(s, n) == SubSeq(s, 1, n)

\* The path from the root through last children down to a childless node.
RECURSIVE LastChildPath(_)
LastChildPath(t) ==
    IF t.inner = <<>>
    THEN <<>>
    ELSE <<Len(t.inner) - 1>> \o LastChildPath(Last(t.inner))

InProtocol == phase \in {"running", "done"}

\* The root has depth 0 and every other node its parent's depth plus one.
DepthsChain(t) ==
    /\ t.depth = 0
    /\ \A p \in Paths(t) \ {<<>>} :
          NodeAt(t, p).depth = NodeAt(t, Front(p)).depth + 1

\* The node an update fragment addresses: the root for depth 0, else child
\* number `location` of the node at depth - 1 on the last-child path.
Addressed(t, frag) ==
    IF frag.depth = 0
    THEN <<>>
    ELSE Prefix(LastChildPath(t), frag.depth - 1) \o <<frag.location>>

\* C1: in a well-formed event stream the tree has exactly one node per open
\* event (and the root), at the place the event's nesting gives it; every
\* node's depth is its nesting level and every child's location is its
\* index in its parent's child list.
C1_OneNodePerOpen ==
    /\ last.event = "open" => last.err = NoErr
    /\ InProtocol =>
        /\ Paths(trace) = {<<>>} \cup opened
        /\ NodeCount(trace) = Cardinality(opened) + 1
        /\ \A p \in Paths(trace) :
              /\ NodeAt(trace, p).depth = Len(p)
              /\ p # <<>> => NodeAt(trace, p).location = Last(p)

\* A well-formed stream has built a second child beside a nested first one.
C1_Witness ==
    /\ InProtocol
    /\ last.event = "open"
    /\ <<0, 0>> \in Paths(trace)
    /\ <<1>> \in Paths(trace)
    /\ NodeAt(trace, <<1>>).location = 1

\* C2: in a well-formed stream each close overwrites the result fields of
\* the node its matching open created and changes no other node, so once
\* the root has closed every node carries the results of its own close.
C2_CloseReachesOwnNode ==
    /\ last.event = "close" =>
          /\ last.err = NoErr
          /\ Paths(trace) = Paths(last.pre)
          /\ \A p \in Paths(trace) :
                IF p = last.path
                THEN /\ NodeAt(trace, p).success = last.frag.success
                     /\ NodeAt(trace, p).output = last.frag.output
                     /\ NodeAt(trace, p).cost = last.frag.cost
                     /\ NodeAt(trace, p).logs = last.frag.logs
                ELSE Fields(NodeAt(trace, p)) = Fields(NodeAt(last.pre, p))
    /\ phase = "done" =>
          /\ Cardinality(closes) = NodeCount(trace)
          /\ \A p \in Paths(trace) :
                \E c \in closes :
                   /\ c.path = p
                   /\ NodeAt(trace, p).success = Fragment(0, 0, c.kind).success
                   /\ NodeAt(trace, p).output = Fragment(0, 0, c.kind).output
                   /\ NodeAt(trace, p).cost = Fragment(0, 0, c.kind).cost
                   /\ NodeAt(trace, p).logs = Fragment(0, 0, c.kind).logs

\* root -> A -> B, closed in the order B, A, root, with A's results unlike
\* those of B and of the root.
C2_Witness ==
    /\ phase = "done"
    /\ Paths(trace) = {<<>>, <<0>>, <<0, 0>>}
    /\ trace.cost # NodeAt(trace, <<0>>).cost
    /\ NodeAt(trace, <<0, 0>>).cost # NodeAt(trace, <<0>>).cost

\* C3: a successful update overwrites success, addr, cost, output, logs and
\* data of the addressed node and nothing else: that node keeps its depth,
\* location, created and children, every other node and the shape stay.
C3_UpdateFrame ==
    (last.op = "update_trace" /\ last.err = NoErr) =>
        LET q == Addressed(last.pre, last.frag)
        IN  /\ Paths(trace) = Paths(last.pre)
            /\ q \in Paths(trace)
            /\ \A p \in Paths(trace) \ {q} :
                  Fields(NodeAt(trace, p)) = Fields(NodeAt(last.pre, p))
            /\ Fields(NodeAt(trace, q)) =
                  [Fields(NodeAt(last.pre, q)) EXCEPT
                      !.success = last.frag.success,
                      !.addr = last.frag.addr,
                      !.cost = last.frag.cost,
                      !.output = last.frag.output,
                      !.logs = last.frag.logs,
                      !.data = last.frag.data]

\* An update below the root changed a node that has a child of its own and
\* whose created flag is unlike the fragment's.
C3_Witness ==
    /\ last.op = "update_trace"
    /\ last.err = NoErr
    /\ last.frag.depth >= 1
    /\ trace # last.pre
    /\ NodeAt(trace, Addressed(last.pre, last.frag)).inner # <<>>
    /\ NodeAt(trace, Addressed(last.pre, last.frag)).created # last.frag.created
    /\ NodeAt(trace, Addressed(last.pre, last.frag)).location # last.frag.location

\* C4: after any sequence of add_trace and update_trace calls, failed ones
\* included, the root has depth 0 and every node its parent's depth + 1.
C4_DepthInvariant == DepthsChain(trace)

\* Outside the protocol, right after a failed call, on a tree two levels deep.
C4_Witness ==
    /\ phase = "free"
    /\ last.op \in {"add_trace", "update_trace"}
    /\ last.err # NoErr
    /\ \E p \in Paths(trace) : Len(p) = 2
    /\ \E p \in Paths(trace) \ {<<>>} : NodeAt(trace, p).location # Last(p)

\* The nodes on the last-child path of t, the root included.
OnLastChildPath(t) ==
    {Prefix(LastChildPath(t), n) : n \in 0..Len(LastChildPath(t))}

\* The paths of the nodes of t that have no children.
Leaves(t) == {p \in Paths(t) : NodeAt(t, p).inner = <<>>}

\* C5: add_trace of a fragment of depth >= 1 fails, with "Disconnected
\* trace", exactly when no node on the last-child path has depth
\* fragment.depth - 1, so that the descent ends at a childless node of
\* another depth; it always fails when fragment.depth is two or more
\* greater than the depth of every leaf.
C5_AddFailsWhenDisconnected ==
    (last.op = "add_trace" /\ last.frag.depth >= 1) =>
        /\ last.err \in {NoErr, DisconnectedAdd}
        /\ last.err = DisconnectedAdd <=>
              \A p \in OnLastChildPath(last.pre) :
                 NodeAt(last.pre, p).depth # last.frag.depth - 1
        /\ (\A p \in Leaves(last.pre) :
               last.frag.depth >= NodeAt(last.pre, p).depth + 2)
              => last.err = DisconnectedAdd

\* An add failed although an earlier branch holds a node of the parent's
\* depth: only the last-child path counts.
C5_Witness ==
    /\ last.op = "add_trace"
    /\ last.frag.depth >= 2
    /\ last.err = DisconnectedAdd
    /\ \E p \in Paths(last.pre) :
          NodeAt(last.pre, p).depth = last.frag.depth - 1

\* C6: location leaves the tree as it is and agrees with add_trace on every
\* fragment of depth >= 1: it fails exactly when add_trace fails, and the
\* index it returns is the index at which add_trace, called next, puts the
\* fragment in its parent's child list.
C6_LocationAgreesWithAdd ==
    (last.op = "location" /\ last.frag.depth >= 1) =>
        LET a == add_trace(trace, last.frag)
            new == Paths(a.trace) \ Paths(trace)
        IN  /\ trace = last.pre
            /\ last.err # NoErr <=> a.err # NoErr
            /\ last.err = NoErr =>
                  /\ Cardinality(new) = 1
                  /\ \A q \in new :
                        /\ Last(q) = last.ret
                        /\ NodeAt(a.trace, q) = last.frag

\* location returned index 1 for a fragment two levels below the root, in a
\* tree whose root has an earlier child as well.
C6_Witness ==
    /\ last.op = "location"
    /\ last.err = NoErr
    /\ last.frag.depth = 2
    /\ last.ret = 1
    /\ Len(trace.inner) = 2

\* C7: a successful add_trace of a fragment of depth >= 1 appends exactly
\* one node, the fragment, as the last child of the node at depth
\* fragment.depth - 1 on the last-child path; every node that was there
\* keeps its place and its fields.
C7_AddFrame ==
    (last.op = "add_trace" /\ last.err = NoErr /\ last.frag.depth >= 1) =>
        LET parent == Prefix(LastChildPath(last.pre), last.frag.depth - 1)
            q == parent \o <<Len(NodeAt(last.pre, parent).inner)>>
        IN  /\ q \notin Paths(last.pre)
            /\ Paths(trace) = Paths(last.pre) \cup {q}
            /\ NodeCount(trace) = NodeCount(last.pre) + 1
            /\ NodeAt(trace, q) = last.frag
            /\ \A p \in Paths(last.pre) :
                  Fields(NodeAt(trace, p)) = Fields(NodeAt(last.pre, p))

\* An add below the root gave a node its second child; the earlier sibling
\* differs from the fragment.
C7_Witness ==
    /\ last.op = "add_trace"
    /\ last.err = NoErr
    /\ last.frag.depth = 2
    /\ \E p \in Paths(trace) :
          /\ Len(p) = 1
          /\ Len(NodeAt(trace, p).inner) = 2
          /\ NodeAt(trace, p).inner[1] # NodeAt(trace, p).inner[2]

\* C8: add_trace of a depth-0 fragment never fails and leaves the whole
\* tree, the root's fields included, as it was.
C8_AddRootNoOp ==
    (last.op = "add_trace" /\ last.frag.depth = 0) =>
        /\ last.err = NoErr
        /\ trace = last.pre

\* A depth-0 fragment unlike the root was added to a root with children.
C8_Witness ==
    /\ last.op = "add_trace"
    /\ last.frag.depth = 0
    /\ trace.inner # <<>>
    /\ trace.cost # last.frag.cost
    /\ trace.logs # last.frag.logs

\* C9: update_trace applied again with the fragment just applied leaves the
\* tree as the first application left it, and ends the same way.
C9_UpdateIdempotent ==
    last.op = "update_trace" =>
        /\ update_trace(trace, last.frag).trace = trace
        /\ update_trace(trace, last.frag).err = last.err

\* An update below the root that changed a node which already had logs.
C9_Witness ==
    /\ last.op = "update_trace"
    /\ last.err = NoErr
    /\ last.frag.depth >= 1
    /\ trace # last.pre
    /\ NodeAt(last.pre, Addressed(last.pre, last.frag)).logs # <<>>

\* Path p comes before path q in depth-first pre-order, children left to
\* right: p is a proper prefix of q, or p turns left where they part.
PreOrderBefore(p, q) ==
    \/ Len(p) < Len(q) /\ Prefix(q, Len(p)) = p
    \/ \E i \in 1..Len(p) :
          /\ i <= Len(q)
          /\ Prefix(p, i - 1) = Prefix(q, i - 1)
          /\ p[i] < q[i]

\* The nodes of t whose own (depth, location) is (d, l).
Matches(t, d, l) ==
    {p \in Paths(t) : NodeAt(t, p).depth = d /\ NodeAt(t, p).location = l}

\* C10: get_trace never fails; it finds a node exactly when some node of the
\* tree has the (depth, location) asked for, and the node it returns is the
\* first such node in depth-first pre-order.
C10_GetTraceFirstMatch ==
    last.op = "get_trace" =>
        LET m == Matches(trace, last.frag.depth, last.frag.location)
        IN  /\ last.err = NoErr
            /\ last.found <=> m # {}
            /\ last.found =>
                  /\ last.path \in m
                  /\ \A p \in m \ {last.path} : PreOrderBefore(last.path, p)

\* The node found comes after a sibling of the same depth and another
\* location that has children, which the search did not descend into.
C10_Witness ==
    /\ last.op = "get_trace"
    /\ last.found
    /\ \E p \in Paths(trace) :
          /\ NodeAt(trace, p).depth = last.frag.depth
          /\ NodeAt(trace, p).location # last.frag.location
          /\ NodeAt(trace, p).inner # <<>>
          /\ PreOrderBefore(p, last.path)

\* The sum of logs.len() over the nodes of t at the paths in S.
RECURSIVE LogsAt(_, _)
LogsAt(t, S) ==
    IF S = {}
    THEN 0
    ELSE LET p == CHOOSE x \in S : TRUE
         IN  Len(NodeAt(t, p).logs) + LogsAt(t, S \ {p})

\* C11: inner_number_of_inners of a node is the number of nodes of its
\* subtree, the node itself not counted; on the root it is the number of
\* add_trace calls that appended a node since the root was childless.
C11_DescendantCalls ==
    last.op = "inner_number_of_inners" =>
        /\ last.ret = NodeCount(NodeAt(trace, last.path)) - 1
        /\ last.path = <<>> => last.ret = adds

\* Asked of the root after three adds that built two levels.
C11_Witness ==
    /\ last.op = "inner_number_of_inners"
    /\ last.path = <<>>
    /\ last.ret = 3
    /\ adds = 3
    /\ \E p \in Paths(trace) : Len(p) >= 2

\* C12: inner_number_of_logs of a node is the sum of logs.len() over every
\* node of its subtree, the node itself included.
C12_TotalLogs ==
    last.op = "inner_number_of_logs" =>
        last.ret = LogsAt(NodeAt(trace, last.path),
                          Paths(NodeAt(trace, last.path)))

\* Asked of a node that has logs of its own and a grandchild with logs.
C12_Witness ==
    /\ last.op = "inner_number_of_logs"
    /\ NodeAt(trace, last.path).logs # <<>>
    /\ \E p \in Paths(NodeAt(trace, last.path)) :
          /\ Len(p) = 2
          /\ NodeAt(NodeAt(trace, last.path), p).logs # <<>>
    /\ last.ret >= 4

\* C16: update_trace of a fragment of depth >= 1 fails only with
\* "Disconnected trace update", and only when no node on the last-child
\* path has depth fragment.depth - 1; when the descent reaches such a node
\* the overwrite is applied, whatever fragment.location is.
C16_UpdateFailsOnlyDisconnected ==
    (last.op = "update_trace" /\ last.frag.depth >= 1) =>
        /\ last.err \in {NoErr, DisconnectedUpdate}
        /\ last.err = DisconnectedUpdate <=>
              \A p \in OnLastChildPath(last.pre) :
                 NodeAt(last.pre, p).depth # last.frag.depth - 1

\* C17: while a well-formed stream runs, the calls opened and not closed
\* are the nodes on the last-child path from the root down to the deepest
\* open call, and the location a close fragment carries is the index of the
\* last child of the parent at the time of the close.
C17_OpenCallsOnLastChildPath ==
    /\ phase = "running" =>
          /\ Len(open) <= Len(LastChildPath(trace))
          /\ open = Prefix(LastChildPath(trace), Len(open))
    /\ (last.event = "close" /\ last.frag.depth >= 1) =>
          last.frag.location =
             Len(NodeAt(last.pre, Front(last.path)).inner) - 1

\* A second child, with a child of its own already closed, is closed.
C17_Witness ==
    /\ phase = "running"
    /\ last.event = "close"
    /\ last.frag.depth = 1
    /\ last.frag.location = 1
    /\ Len(LastChildPath(trace)) = 2

\* C19: a call of add_trace, update_trace or location that fails leaves the
\* tree exactly as it was before the call.
C19_FailureLeavesTree ==
    (last.op \in {"add_trace", "update_trace", "location"}
       /\ last.err # NoErr) => trace = last.pre

\* An update two levels down failed on a tree with no node at depth 1.
C19_Witness ==
    /\ last.op = "update_trace"
    /\ last.err = DisconnectedUpdate
    /\ last.frag.depth >= 3
    /\ last.pre.inner # <<>>
    /\ last.frag.cost # last.pre.cost

\* ------------------------------------------------------ render properties
Rendered == last.op = "pretty_print"

\* The entry of the registry just used that the node matches, 0 for none.
ContractOf(n) == find_contract(printed.contracts, n.addr, 1)

\* Some function of the abi has the first four bytes of the node's data as
\* its selector.
SelectorMatches(n, abi) ==
    /\ Len(n.data) >= 4
    /\ \E fi \in 1..Len(abi.functions) :
          \E oi \in 1..Len(abi.functions[fi].overloads) :
             abi.functions[fi].overloads[oi].selector = SubSeq(n.data, 1, 4)

\* Some event definition of the abi has the log's first topic as signature.
SignatureMatches(log, abi) ==
    \E ei \in 1..Len(abi.events) :
       \E oi \in 1..Len(abi.events[ei].overloads) :
          abi.events[ei].overloads[oi].signature = log.topics[1]

\* The positions in the output of the lines of log i of the node at p.
LogLines(p, i) ==
    {j \in 1..Len(printed.lines) :
        printed.lines[j].path = p /\ printed.lines[j].log = i}

\* Path q lies strictly below path p.
Below(q, p) == Len(q) > Len(p) /\ Prefix(q, Len(p)) = p

\* C13: a node that matches no contract, or whose data matches no function
\* selector of its contract, is not an error: the render fails only where a
\* matched selector or signature does not decode, and after a render that
\* completed every such node has its line in the fallback form.
C13_UnmatchedIsNoError ==
    Rendered =>
        /\ printed.err \in {NoErr, DecodeInputFailed, ParseLogFailed}
        /\ printed.err = NoErr =>
              \A p \in Paths(trace) :
                 LET n == NodeAt(trace, p)
                     c == ContractOf(n)
                 IN  (c = 0 \/ ~SelectorMatches(n, printed.contracts[c].abi))
                        => \E j \in 1..Len(printed.lines) :
                              /\ printed.lines[j].path = p
                              /\ printed.lines[j].kind = "raw_call"

\* C14: after a render that completed, every log of a node that matched a
\* contract has exactly one line: the decoded `emit name(..)` line when
\* some event definition has the log's first topic as signature, the raw
\* log in the fallback colour otherwise.
C14_OneLinePerLog ==
    (Rendered /\ printed.err = NoErr) =>
        \A p \in Paths(trace) :
           LET n == NodeAt(trace, p)
               c == ContractOf(n)
           IN  c # 0 =>
                  \A i \in 0..(Len(n.logs) - 1) :
                     /\ Cardinality(LogLines(p, i)) = 1
                     /\ \A j \in LogLines(p, i) :
                           printed.lines[j].kind =
                              IF SignatureMatches(n.logs[i + 1],
                                                  printed.contracts[c].abi)
                              THEN "emit"
                              ELSE "emit_raw"

\* C15: in the output of a render, the line of a child ends its prefix with
\* the terminal connector exactly when the child is its parent's last child
\* and the parent has no logs, a log line exactly when the log is the
\* node's last log, every other one with the mid-branch connector; and the
\* lines of a node's descendants come before the lines of its logs.
C15_Connectors ==
    Rendered =>
        \A j \in 1..Len(printed.lines) :
           LET l == printed.lines[j]
           IN  /\ (l.log = -1 /\ l.path # <<>>) =>
                     Last(l.left) =
                        IF /\ Last(l.path) =
                                Len(NodeAt(trace, Front(l.path)).inner) - 1
                           /\ NodeAt(trace, Front(l.path)).logs = <<>>
                        THEN Terminal
                        ELSE MidBranch
               /\ l.log >= 0 =>
                     Last(l.left) =
                        IF l.log = Len(NodeAt(trace, l.path).logs) - 1
                        THEN Terminal
                        ELSE MidBranch
               /\ \A k \in 1..Len(printed.lines) :
                     (printed.lines[k].log >= 0
                        /\ Below(l.path, printed.lines[k].path)) => j < k

\* A render completed on a tree whose root has no logs and two children,
\* the second of them matched to a contract, with two logs and a child.
C15_Witness ==
    /\ Rendered
    /\ printed.err = NoErr
    /\ trace.logs = <<>>
    /\ Len(trace.inner) = 2
    /\ Len(trace.inner[2].logs) = 2
    /\ trace.inner[2].inner # <<>>
    /\ ContractOf(trace.inner[2]) # 0
    /\ Cardinality(LogLines(<<1>>, 0)) >= 1
    /\ Cardinality(LogLines(<<1>>, 1)) >= 1

\* C18: in every line of a render started with the empty prefix only the
\* last segment of the prefix is a branch connector, every earlier segment
\* is a continuation bar, and the line of a node d levels below the
\* rendered root has d segments.
C18_PrefixShape ==
    Rendered =>
        \A j \in 1..Len(printed.lines) :
           LET l == printed.lines[j]
           IN  /\ \A k \in 1..(Len(l.left) - 1) : l.left[k] = Bar
               /\ l.left # <<>> => Last(l.left) \in {MidBranch, Terminal}
               /\ l.log = -1 => Len(l.left) = Len(l.path)

====
